---- MODULE Spec2Model ----
(***************************************************************************)
(* Berita API (src/main.py): five HTTP handlers over one table "berita".   *)
(* The table is a set of rows; a request carries an optional X-API-Key     *)
(* header, a path id and a JSON payload; a response is a status and a set  *)
(* of BeritaRead records.  Handlers run in a thread pool, each with a      *)
(* session of its own, so requests overlap: every access a handler makes   *)
(* to the table (query, commit, refresh) is a step of its own.             *)
(***************************************************************************)
EXTENDS Integers, Sequences, FiniteSets, TLC

(* ------------------------------------------------------------------ *)
(* Program constants                                                  *)
(* ------------------------------------------------------------------ *)
API_KEY == "supersecret"
MinLength == 1
JudulMaxLength == 255
KategoriMaxLength == 100
HTTP_200_OK == 200
HTTP_201_CREATED == 201
HTTP_204_NO_CONTENT == 204
HTTP_401_UNAUTHORIZED == 401
HTTP_404_NOT_FOUND == 404
HTTP_422_UNPROCESSABLE == 422
HTTP_500_INTERNAL_SERVER_ERROR == 500

(* ------------------------------------------------------------------ *)
(* Bounds of the model                                                *)
(* ------------------------------------------------------------------ *)
\* The number of requests a behaviour holds.
MaxRequests == 2

(* ------------------------------------------------------------------ *)
(* Values                                                             *)
(* ------------------------------------------------------------------ *)
\* A text value: the character ch repeated len times.
Str(ch, n) == [ch |-> ch, len |-> n]
EmptyStr == Str("", 0)
StrLen(s) == s.len

\* A date string is a tuple.  A string of two or more runs of digits joined by
\* "-" is the tuple of its runs, none empty: "2024-02-29" is
\* <<<<2,0,2,4>>, <<0,2>>, <<2,9>>>>.  A string that is the decimal numeral of
\* an integer n is <<n>>: "0" is <<0>>, "-5" is <<-5>>.  The integers of the
\* model end below 2^31, so every numeral it can hold is below 2e10, where
\* pydantic starts to read a number as milliseconds, and below 2^53, up to
\* which float(value) is exact.
Iso_2024_02_29 == << <<2, 0, 2, 4>>, <<0, 2>>, <<2, 9>> >>
Iso_2023_02_29 == << <<2, 0, 2, 3>>, <<0, 2>>, <<2, 9>> >>
UnixZero == <<0>>
UnixOne == <<1>>

\* The pydantic releases the code runs on; they differ in the strings a
\* `date` field accepts.
PydanticVersions == {"1.x", "2.x"}

IsLeap(y) == (y % 4 = 0 /\ y % 100 # 0) \/ y % 400 = 0
DaysInMonth(y, m) ==
    IF m = 2 THEN (IF IsLeap(y) THEN 29 ELSE 28)
    ELSE IF m \in {4, 6, 9, 11} THEN 30 ELSE 31

\* int() of a short run of digits.
RECURSIVE Number(_)
Number(ds) ==
    IF ds = <<>> THEN 0 ELSE Number(SubSeq(ds, 1, Len(ds) - 1)) * 10 + ds[Len(ds)]

\* The date `days` days after 1970-01-01 (before it when negative).
DateFromDays(days) ==
    LET z == days + 719468
        era == z \div 146097
        doe == z - era * 146097
        yoe == (doe - doe \div 1460 + doe \div 36524 - doe \div 146096) \div 365
        doy == doe - (365 * yoe + yoe \div 4 - yoe \div 100)
        mp == (5 * doy + 2) \div 153
        d == doy - (153 * mp + 2) \div 5 + 1
        m == IF mp < 10 THEN mp + 3 ELSE mp - 9
        y == yoe + era * 400 + (IF m <= 2 THEN 1 ELSE 0)
    IN [year |-> y, month |-> m, day |-> d]

\* The day of the instant `seconds` seconds after the epoch:
\* (EPOCH + timedelta(seconds=seconds)).date().
FromUnixSeconds(seconds) == DateFromDays(seconds \div 86400)

\* The validation of a `date` field given as a string: the set holding the
\* parsed date, or {} for a validation error.
\*   numeral: a unix timestamp.  1.x takes the day the instant falls on; 2.x
\*     takes it only when the instant is a midnight.
\*   otherwise the string must be year-month-day and name a day of the
\*     calendar: four digits, then one or two digits each in 1.x, two digits
\*     each in 2.x.
ParseDate(version, raw) ==
    IF Len(raw) = 1
    THEN IF version = "1.x" \/ raw[1] % 86400 = 0
         THEN { FromUnixSeconds(raw[1]) }
         ELSE {}
    ELSE IF /\ Len(raw) = 3
            /\ Len(raw[1]) = 4
            /\ Len(raw[2]) \in (IF version = "1.x" THEN 1..2 ELSE {2})
            /\ Len(raw[3]) \in (IF version = "1.x" THEN 1..2 ELSE {2})
    THEN LET y == Number(raw[1])
             m == Number(raw[2])
             d == Number(raw[3])
         IN IF y >= 1 /\ m \in 1..12 /\ d >= 1 /\ d <= DaysInMonth(y, m)
            THEN {[year |-> y, month |-> m, day |-> d]}
            ELSE {}
    ELSE {}

\* Variant: the day written before the month.
IsoFormat_DayFirst(dt) ==
    << << dt.year \div 1000, (dt.year \div 100) % 10, (dt.year \div 10) % 10, dt.year % 10 >>,
       << dt.day \div 10, dt.day % 10 >>, << dt.month \div 10, dt.month % 10 >> >>

\* date.isoformat(), as the response serialises a date.
IsoFormat(dt) ==
    << << dt.year \div 1000, (dt.year \div 100) % 10, (dt.year \div 10) % 10, dt.year % 10 >>,
       << dt.month \div 10, dt.month % 10 >>, << dt.day \div 10, dt.day % 10 >> >>

(* ------------------------------------------------------------------ *)
(* Request inputs                                                     *)
(* ------------------------------------------------------------------ *)
Fields == {"judul", "isi_berita", "tanggal", "kategori"}

Payload(j, i, t, k) == [judul |-> j, isi_berita |-> i, tanggal |-> t, kategori |-> k]
Without(p, f) == [x \in DOMAIN p \ {f} |-> p[x]]

JudulA == Str("a", 1)
JudulB == Str("b", 255)
IsiX == Str("x", 1)
IsiY == Str("y", 300)
KategoriC == Str("c", 100)

BasePayload == Payload(JudulA, IsiX, Iso_2024_02_29, KategoriC)

ValidPayloads ==
    { Payload(JudulA, IsiX, Iso_2024_02_29, KategoriC),
      Payload(JudulA, IsiY, Iso_2024_02_29, KategoriC),
      Payload(JudulB, IsiX, Iso_2024_02_29, KategoriC) }

\* A valid payload that also carries an "id" key of the caller's choosing.
PayloadWithId ==
    [judul |-> JudulB, isi_berita |-> IsiX, tanggal |-> Iso_2024_02_29,
     kategori |-> KategoriC, id |-> 1]

\* Payloads whose date is a numeral: "0" (a midnight) and "1" (not one).
PayloadUnixDate == [BasePayload EXCEPT !.tanggal = UnixZero]
PayloadUnixSecond == [BasePayload EXCEPT !.tanggal = UnixOne]

JudulTooLong == [BasePayload EXCEPT !.judul = Str("a", 256)]

InvalidPayloads ==
    { Without(BasePayload, "tanggal"),
      [BasePayload EXCEPT !.judul = EmptyStr],
      JudulTooLong,
      [BasePayload EXCEPT !.isi_berita = EmptyStr],
      [BasePayload EXCEPT !.kategori = EmptyStr],
      [BasePayload EXCEPT !.kategori = Str("c", 101)],
      [BasePayload EXCEPT !.tanggal = Iso_2023_02_29] }

\* The payloads the schema lets through on some pydantic release.
AcceptedPayloads ==
    ValidPayloads \cup {PayloadWithId, PayloadUnixDate, PayloadUnixSecond}

Payloads == AcceptedPayloads \cup InvalidPayloads

\* The X-API-Key header: absent (<<>>) or present with one value.
Headers == { <<>>, <<API_KEY>>, <<"Supersecret">> }

Ids == {1, 2}

NoPayload == {}

Request(op, hdr, id, body) == [op |-> op, hdr |-> hdr, id |-> id, payload |-> body]

\* The requests clients send.  Every route; create with every payload; update
\* of id 1 with every payload the schema lets through bar the one that names
\* an id, and with two it does not; update of id 2 with a valid and an
\* invalid payload; delete of either id; the guarded routes also under a wrong
\* and a missing key, with a valid and an invalid payload.
Requests ==
    { Request("list", <<>>, 0, NoPayload) }
    \cup { Request("get", <<>>, i, NoPayload) : i \in Ids }
    \cup { Request("delete", <<API_KEY>>, i, NoPayload) : i \in Ids }
    \cup { Request("delete", h, 1, NoPayload) : h \in Headers }
    \cup { Request("create", <<API_KEY>>, 0, {p}) : p \in Payloads }
    \cup { Request("create", h, 0, {p}) :
             h \in Headers, p \in {BasePayload, JudulTooLong} }
    \cup { Request("update", <<API_KEY>>, 1, {p}) :
             p \in (AcceptedPayloads \ {PayloadWithId})
                     \cup {JudulTooLong, [BasePayload EXCEPT !.tanggal = Iso_2023_02_29]} }
    \cup { Request("update", <<API_KEY>>, 2, {p}) : p \in {BasePayload, JudulTooLong} }
    \cup { Request("update", <<"Supersecret">>, 1, {JudulTooLong}),
           Request("update", <<>>, 1, {BasePayload}) }

(* ------------------------------------------------------------------ *)
(* Validation schema (BeritaBase) and record mapping                  *)
(* ------------------------------------------------------------------ *)
FieldError(version, p, f) ==
    IF f \notin DOMAIN p THEN TRUE
    ELSE CASE f = "judul" ->
                ~(StrLen(p[f]) >= MinLength /\ StrLen(p[f]) <= JudulMaxLength)
           [] f = "isi_berita" -> ~(StrLen(p[f]) >= MinLength)
           [] f = "tanggal" -> ParseDate(version, p[f]) = {}
           [] f = "kategori" ->
                ~(StrLen(p[f]) >= MinLength /\ StrLen(p[f]) <= KategoriMaxLength)

\* The fields pydantic reports as failing; the payload validates iff none.
BeritaBase(version, p) == { f \in Fields : FieldError(version, p, f) }

\* berita_in.dict(): the four declared fields of a validated payload, the date parsed.
Dict(version, p) ==
    [judul |-> p.judul, isi_berita |-> p.isi_berita,
     tanggal |-> CHOOSE d \in ParseDate(version, p.tanggal) : TRUE,
     kategori |-> p.kategori]

\* The response model: the row's id and four fields, the date as an ISO string.
BeritaRead(row) ==
    [id |-> row.id, judul |-> row.judul, isi_berita |-> row.isi_berita,
     tanggal |-> IsoFormat(row.tanggal), kategori |-> row.kategori]

\* The four fields of a row, as a payload's dict() has them.
RowFields(r) ==
    [judul |-> r.judul, isi_berita |-> r.isi_berita,
     tanggal |-> r.tanggal, kategori |-> r.kategori]

(* ------------------------------------------------------------------ *)
(* The table                                                          *)
(* ------------------------------------------------------------------ *)
SetMax(S) == CHOOSE m \in S : \A x \in S : x <= m
RowIds(db) == { r.id : r \in db }

\* INTEGER PRIMARY KEY of a SQLite table: one more than the largest id in use.
NextId(db) == IF db = {} THEN 1 ELSE SetMax(RowIds(db)) + 1

\* Berita(**berita_in.dict()) once inserted.
Berita(id, d) ==
    [id |-> id, judul |-> d.judul, isi_berita |-> d.isi_berita,
     tanggal |-> d.tanggal, kategori |-> d.kategori]

\* db.query(Berita).filter(Berita.id == berita_id).first(): a set of at most one row.
QueryFirst(db, berita_id) ==
    IF \E r \in db : r.id = berita_id
    THEN { CHOOSE r \in db : r.id = berita_id }
    ELSE {}

\* The attributes whose value differs from the loaded one after the setattr loop.
Dirty(loaded, d) == { f \in Fields : d[f] # loaded[f] }

\* Variant: an "id" key of the payload becomes the row's id.
FlushInsert_CallerId(db, berita_in, d) ==
    db \cup { Berita(IF "id" \in DOMAIN berita_in THEN berita_in.id ELSE NextId(db), d) }

\* The flush of db.add(berita): INSERT INTO berita (judul, isi_berita, tanggal,
\* kategori), the id left to the table.  d is berita_in.dict().
FlushInsert(db, berita_in, d) == db \cup { Berita(NextId(db), d) }

\* The flush of a modified object: UPDATE berita SET <dirty columns> WHERE id = <id>.
FlushUpdate(db, loaded, d) ==
    { IF r.id = loaded.id
      THEN [f \in DOMAIN r |-> IF f \in Dirty(loaded, d) THEN d[f] ELSE r[f]]
      ELSE r : r \in db }

\* Variant: the DELETE is never flushed.
FlushDelete_Keep(db, loaded) == db

\* The flush of db.delete(berita): DELETE FROM berita WHERE id = <id>.
FlushDelete(db, loaded) == { r \in db : r.id # loaded.id }

\* db.refresh(berita): the row as the table holds it now.
Refresh(db, berita_id) == { BeritaRead(r) : r \in QueryFirst(db, berita_id) }

(* ------------------------------------------------------------------ *)
(* Access control, dependencies and the read handlers                 *)
(* ------------------------------------------------------------------ *)
\* Variant: every presented key is accepted.
require_api_key_Any(x_api_key) == TRUE

\* TRUE when the dependency returns, FALSE when it raises 401.
require_api_key(x_api_key) == x_api_key = API_KEY

Out(status, body) == [status |-> status, body |-> body]

\* Each of the two read handlers is one query.
list_berita(db) == Out(HTTP_200_OK, { BeritaRead(r) : r \in db })

get_berita(db, berita_id) ==
    LET berita == QueryFirst(db, berita_id)
    IN IF berita = {} THEN Out(HTTP_404_NOT_FOUND, {})
       ELSE Out(HTTP_200_OK, { BeritaRead(r) : r \in berita })

\* What a guarded route's dependencies and body validation decide before the
\* handler runs: 0 to go on, else the status of the rejection.  hdr is the
\* X-API-Key header, body the set holding the JSON payload (empty for a route
\* without one).
Dependencies(version, hdr, body) ==
    IF hdr # <<>> /\ ~require_api_key(hdr[1]) THEN HTTP_401_UNAUTHORIZED
    ELSE IF hdr = <<>> \/ (\E p \in body : BeritaBase(version, p) # {})
         THEN HTTP_422_UNPROCESSABLE
         ELSE 0

\* Variant: the session is closed only after a handler that returned.
get_db_exit_OnReturn(status) == IF status < 400 THEN "closed" ELSE "open"

\* get_db after the handler has ended with `status`: the finally clause closes
\* the session on every path.
get_db_exit(status) == "closed"

(* ------------------------------------------------------------------ *)
(* State                                                              *)
(* ------------------------------------------------------------------ *)
VARIABLES
    store,        \* the rows of table "berita"
    pydantic,     \* the pydantic release installed
    workers,      \* per thread of the pool: the request it serves and how far it is
    nBegun,       \* number of requests received
    nCreated,     \* number of create requests answered 201
    nDeleted,     \* number of delete requests answered 204
    deleted,      \* the ids some delete request answered 204 has named
    gone,         \* those of them no INSERT has been given since
    prevCreated   \* the last create answered 201, while no write has been begun since

vars == <<store, pydantic, workers, nBegun, nCreated, nDeleted, deleted, gone, prevCreated>>

\* Two threads, so that two requests overlap.
Workers == {1, 2}

Mutating == {"create", "update", "delete"}

\* pc: "idle", "run" (handler entered), "loaded" (row loaded), "committed",
\* "exit" (response decided, session not yet closed), "done" (request over).  wrote: the request has
\* changed the table.  alone: no other request that writes was in flight at
\* any time since this one came in.
Idle ==
    [pc |-> "idle", op |-> "none", hdr |-> <<>>, id |-> 0, payload |-> NoPayload,
     loaded |-> {}, status |-> 0, body |-> {}, sess |-> "none",
     wrote |-> FALSE, alone |-> FALSE]

InFlightWriter(slot) ==
    slot.pc \in {"run", "loaded", "committed"} /\ slot.op \in Mutating

\* Tables a database file can hold when the process starts.
PersistedStores == { {}, {Berita(1, Dict("1.x", BasePayload))} }

\* on_startup has made the table if the file had none; the rows of the file
\* count as the creates that made them.
Init ==
    /\ store \in PersistedStores
    /\ pydantic \in PydanticVersions
    /\ workers = [w \in Workers |-> Idle]
    /\ nBegun = 0
    /\ nCreated = Cardinality(store)
    /\ nDeleted = 0
    /\ deleted = {}
    /\ gone = {}
    /\ prevCreated = {}

(* ------------------------------------------------------------------ *)
(* Steps of a request                                                 *)
(* ------------------------------------------------------------------ *)
\* Worker w takes its next step: its slot becomes `slot` and the table `db`.
Step(w, slot, db) ==
    LET answered == slot.pc = "exit" /\ workers[w].pc # "exit"
        created == answered /\ slot.op = "create" /\ slot.status = HTTP_201_CREATED
        removed == answered /\ slot.op = "delete" /\ slot.status = HTTP_204_NO_CONTENT
    IN /\ store' = db
       /\ workers' = [workers EXCEPT
                        ![w] = [slot EXCEPT !.wrote = slot.pc # "idle"
                                                   /\ (workers[w].wrote \/ db # store)]]
       /\ nCreated' = IF created THEN nCreated + 1 ELSE nCreated
       /\ nDeleted' = IF removed THEN nDeleted + 1 ELSE nDeleted
       /\ deleted' = IF removed THEN deleted \cup {slot.id} ELSE deleted
       /\ gone' = IF removed THEN gone \cup {slot.id}
                  ELSE gone \ (RowIds(db) \ RowIds(store))
       /\ prevCreated' =
             IF created /\ slot.alone
             THEN {[id |-> slot.id, payload |-> slot.payload, body |-> slot.body]}
             ELSE prevCreated
       /\ UNCHANGED <<pydantic, nBegun>>

\* A request comes in and is given to the first free thread.  Routing and
\* dependency resolution: require_api_key, then get_db opens the session, then
\* the body is validated.  A 401 is raised before get_db runs; a validation
\* error is raised with the session already open.
Begin(w) ==
    /\ workers[w].pc = "idle"
    /\ \A u \in Workers : u < w => workers[u].pc # "idle"
    /\ nBegun < MaxRequests
    /\ \E req \in Requests :
          LET rejected == IF req.op \in {"list", "get"} THEN 0
                          ELSE Dependencies(pydantic, req.hdr, req.payload)
              writer == rejected = 0 /\ req.op \in Mutating
              slot == [Idle EXCEPT
                         !.pc = IF rejected = 0 THEN "run" ELSE "exit",
                         !.op = req.op, !.hdr = req.hdr, !.id = req.id,
                         !.payload = req.payload,
                         !.status = rejected,
                         !.sess = IF rejected = HTTP_401_UNAUTHORIZED
                                  THEN "none" ELSE "open",
                         !.alone = \A u \in Workers \ {w} :
                                       ~InFlightWriter(workers[u])]
          IN /\ nBegun' = nBegun + 1
             /\ workers' =
                   [u \in Workers |->
                      IF u = w THEN slot
                      ELSE IF writer /\ workers[u].pc # "idle"
                      THEN [workers[u] EXCEPT !.alone = FALSE]
                      ELSE workers[u]]
             /\ prevCreated' = IF writer THEN {} ELSE prevCreated
    /\ UNCHANGED <<store, pydantic, nCreated, nDeleted, deleted, gone>>

\* list_berita: db.query(Berita).all()
ListQuery(w) ==
    /\ workers[w].pc = "run" /\ workers[w].op = "list"
    /\ Step(w, [workers[w] EXCEPT !.pc = "exit",
                                  !.status = list_berita(store).status,
                                  !.body = list_berita(store).body],
            store)

\* get_berita: the query, then 404 or the row
GetQuery(w) ==
    /\ workers[w].pc = "run" /\ workers[w].op = "get"
    /\ Step(w, [workers[w] EXCEPT !.pc = "exit",
                                  !.loaded = QueryFirst(store, workers[w].id),
                                  !.status = get_berita(store, workers[w].id).status,
                                  !.body = get_berita(store, workers[w].id).body],
            store)

\* create_berita: Berita(**berita_in.dict()), db.add and db.commit (INSERT).
\* The session learns the id the table gave the row.
CreateCommit(w) ==
    /\ workers[w].pc = "run" /\ workers[w].op = "create"
    /\ \E berita_in \in workers[w].payload :
          LET db == FlushInsert(store, berita_in, Dict(pydantic, berita_in))
              new == { r.id : r \in db \ store }
          IN Step(w, [workers[w] EXCEPT
                        !.pc = "committed",
                        !.id = IF new = {} THEN NextId(store)
                               ELSE CHOOSE id \in new : TRUE],
                  db)

\* Variant: the handler goes on with whatever the query returned.
LoadRow_NoCheck(w) ==
    /\ workers[w].pc = "run" /\ workers[w].op \in {"update", "delete"}
    /\ Step(w, [workers[w] EXCEPT !.pc = "loaded",
                                  !.loaded = QueryFirst(store, workers[w].id)],
            store)

\* update_berita and delete_berita: the query that loads the row, or 404
LoadRow(w) ==
    /\ workers[w].pc = "run" /\ workers[w].op \in {"update", "delete"}
    /\ LET berita == QueryFirst(store, workers[w].id)
       IN Step(w, IF berita = {}
                  THEN [workers[w] EXCEPT !.pc = "exit",
                                          !.status = HTTP_404_NOT_FOUND]
                  ELSE [workers[w] EXCEPT !.pc = "loaded", !.loaded = berita],
               store)

\* update_berita: the setattr loop and commit (UPDATE of the dirty columns).
\* When the row is gone by now, an UPDATE that matches no row raises and the
\* request ends 500; with no dirty column nothing is sent and the commit passes.
UpdateCommit(w) ==
    /\ workers[w].pc = "loaded" /\ workers[w].op = "update"
    /\ \E loaded \in workers[w].loaded, berita_in \in workers[w].payload :
          LET d == Dict(pydantic, berita_in)
          IN IF QueryFirst(store, loaded.id) = {} /\ Dirty(loaded, d) # {}
             THEN Step(w, [workers[w] EXCEPT
                             !.pc = "exit",
                             !.status = HTTP_500_INTERNAL_SERVER_ERROR],
                       store)
             ELSE Step(w, [workers[w] EXCEPT !.pc = "committed"],
                       FlushUpdate(store, loaded, d))

\* create_berita and update_berita: db.refresh(berita) after the commit, and the
\* return.  The refresh raises when the row is no longer in the table.
RefreshRow(w) ==
    /\ workers[w].pc = "committed"
    /\ LET berita == Refresh(store, workers[w].id)
       IN Step(w, [workers[w] EXCEPT
                     !.pc = "exit",
                     !.status = IF berita = {} THEN HTTP_500_INTERNAL_SERVER_ERROR
                                ELSE IF workers[w].op = "create" THEN HTTP_201_CREATED
                                ELSE HTTP_200_OK,
                     !.body = berita],
               store)

\* delete_berita: db.delete and db.commit (DELETE by primary key).  A DELETE
\* that matches no row is not an error.
DeleteCommit(w) ==
    /\ workers[w].pc = "loaded" /\ workers[w].op = "delete"
    /\ \E loaded \in workers[w].loaded :
          Step(w, [workers[w] EXCEPT !.pc = "exit",
                                     !.status = HTTP_204_NO_CONTENT],
               FlushDelete(store, loaded))

\* The request ends: get_db's finally clause, if get_db ran.
Close(w) ==
    /\ workers[w].pc = "exit"
    /\ Step(w, [workers[w] EXCEPT
                  !.pc = "done",
                  !.sess = IF workers[w].sess = "open"
                           THEN get_db_exit(workers[w].status)
                           ELSE workers[w].sess],
            store)

\* The thread goes back to the pool.
Release(w) ==
    /\ workers[w].pc = "done"
    /\ Step(w, Idle, store)

Next ==
    \E w \in Workers :
        \/ Begin(w)
        \/ ListQuery(w)
        \/ GetQuery(w)
        \/ CreateCommit(w)
        \/ LoadRow(w)
        \/ UpdateCommit(w)
        \/ RefreshRow(w)
        \/ DeleteCommit(w)
        \/ Close(w)
        \/ Release(w)

Spec == Init /\ [][Next]_vars

(* ------------------------------------------------------------------ *)
(* Vocabulary of the properties                                       *)
(* ------------------------------------------------------------------ *)
Authorized(slot) == slot.hdr = <<API_KEY>>
Active(slot) == slot.pc # "idle"
Quiescent == \A w \in Workers : workers[w].pc = "idle"

\* The ISO strings among the inputs that name a day of the calendar.
CalendarDates == {Iso_2024_02_29}

\* The schema as the specification words it.
MeetsSchema(p) ==
    /\ Fields \subseteq DOMAIN p
    /\ p.judul.len >= 1 /\ p.judul.len <= 255
    /\ p.isi_berita.len >= 1
    /\ p.kategori.len >= 1 /\ p.kategori.len <= 100
    /\ p.tanggal \in CalendarDates

\* The record b shows the four fields exactly as the payload p submitted them.
SameFields(b, p) ==
    /\ b.judul = p.judul
    /\ b.isi_berita = p.isi_berita
    /\ b.tanggal = p.tanggal
    /\ b.kategori = p.kategori

(* ------------------------------------------------------------------ *)
(* Properties                                                         *)
(* ------------------------------------------------------------------ *)

\* C1: round trip.  An authorized create of a valid payload P, with no other
\* writing request in flight while it is served, is answered 201 with one
\* record: the id the table gave the row and the four fields as P submitted
\* them.  From that answer until another writing request comes in, a get of
\* that id is answered 200 with that same record.
C1_RoundTrip ==
    /\ \A w \in Workers :
          ( /\ workers[w].pc = "exit" /\ workers[w].op = "create"
            /\ Authorized(workers[w]) /\ workers[w].alone
            /\ \A p \in workers[w].payload : MeetsSchema(p) )
          => /\ workers[w].status = 201
             /\ Cardinality(workers[w].body) = 1
             /\ \A b \in workers[w].body, p \in workers[w].payload :
                   b.id = workers[w].id /\ SameFields(b, p)
    /\ \A c \in prevCreated :
          (\A p \in c.payload : MeetsSchema(p))
          => /\ get_berita(store, c.id) = Out(200, c.body)
             /\ \A b \in c.body, p \in c.payload : b.id = c.id /\ SameFields(b, p)

C1_Witness ==
    \E w \in Workers, c \in prevCreated :
        /\ workers[w].pc = "exit" /\ workers[w].op = "get"
        /\ workers[w].id = c.id /\ c.id = 2
        /\ workers[w].status = 200 /\ workers[w].body = c.body
        /\ c.payload = {PayloadWithId}

\* C2: a create, update or delete without the correct secret (no header, or a
\* header with another value) never changes the table, whatever the payload,
\* whether or not the id exists and whatever other requests are in flight.
C2_UnauthorizedChangesNothing ==
    \A w \in Workers :
        ( /\ Active(workers[w]) /\ workers[w].op \in Mutating
          /\ ~Authorized(workers[w]) )
        => ~workers[w].wrote

C2_Witness ==
    \E w \in Workers :
        /\ workers[w].pc = "exit" /\ workers[w].op = "delete"
        /\ workers[w].hdr = <<"Supersecret">>
        /\ workers[w].id \in RowIds(store)
        /\ ~workers[w].wrote

\* C3 (as claimed): a create, update or delete whose secret header is wrong or
\* absent is answered 401, also when the payload is invalid.
C3_UnauthorizedIs401 ==
    \A w \in Workers :
        ( /\ Active(workers[w]) /\ workers[w].op \in Mutating
          /\ ~Authorized(workers[w]) )
        => workers[w].status = 401

\* C4: when the handler's query finds no row with the id, get is answered 404,
\* and an authorized update with a valid payload and an authorized delete are
\* each answered 404 and do not change the table.
C4_AbsentIdIsNotFound ==
    \A w \in Workers :
        ( /\ workers[w].op \in {"get", "update", "delete"}
          /\ workers[w].pc \notin {"idle", "run"}
          /\ workers[w].op \in Mutating => Authorized(workers[w])
          /\ \A p \in workers[w].payload : MeetsSchema(p)
          /\ workers[w].loaded = {} )
        => /\ workers[w].pc \in {"exit", "done"}
           /\ workers[w].status = 404
           /\ ~workers[w].wrote

C4_Witness ==
    \E w \in Workers :
        /\ workers[w].pc = "exit" /\ workers[w].op = "update"
        /\ Authorized(workers[w])
        /\ workers[w].payload \subseteq ValidPayloads
        /\ store # {} /\ workers[w].id \notin RowIds(store)
        /\ workers[w].loaded = {}
        /\ workers[w].status = 404

\* C5 (as claimed): once a delete of an id has been answered 204, every later
\* get of that id is answered 404, whatever requests came in between.
C5_DeletedStaysNotFound ==
    \A id \in deleted : get_berita(store, id).status = 404

\* C5 (amended): once a delete of an id has been answered 204, a get of that id
\* is answered 404 for as long as no create has been given that id again.
C5_DeletedNotFoundUntilReused ==
    \A id \in gone : get_berita(store, id).status = 404

C5_Witness ==
    \E w \in Workers :
        /\ workers[w].pc = "exit" /\ workers[w].op = "get"
        /\ workers[w].id \in gone
        /\ workers[w].status = 404

\* C6 (as claimed): with N the number of creates answered 201 and M the number
\* of deletes answered 204 so far (the rows the table started with counted as
\* creates), a list issued when no request is in flight is answered with
\* exactly N - M records.
C6_ListCount ==
    Quiescent => Cardinality(list_berita(store).body) = nCreated - nDeleted

\* C7 (as claimed): an authorized create or update whose payload violates the
\* schema (a field missing, a text empty or too long, a date that is no
\* calendar date) is answered 422 and does not change the table.
C7_InvalidPayloadRejected ==
    \A w \in Workers :
        ( /\ Active(workers[w]) /\ workers[w].op \in {"create", "update"}
          /\ Authorized(workers[w])
          /\ \E p \in workers[w].payload : ~MeetsSchema(p) )
        => (workers[w].status = 422 /\ ~workers[w].wrote)

\* C8: no two rows share an id and every row has its four fields, none empty;
\* a create adds one row under an id that no row had (also when the payload
\* names an id of its own) and changes no other row; an update changes
\* neither the id of its row nor the set of ids.
C8_IdsAndFields ==
    /\ [](/\ \A r1, r2 \in store : r1.id = r2.id => r1 = r2
          /\ \A r \in store :
                /\ DOMAIN r = Fields \cup {"id"}
                /\ r.judul.len >= 1 /\ r.isi_berita.len >= 1 /\ r.kategori.len >= 1
                /\ r.tanggal.month \in 1..12 /\ r.tanggal.day \in 1..31)
    /\ [][\A w \in Workers :
            (workers'[w] # workers[w] /\ store' # store)
            => /\ workers[w].op = "create"
                  => /\ store \subseteq store'
                     /\ Cardinality(store') = Cardinality(store) + 1
                     /\ RowIds(store') = RowIds(store) \cup {workers'[w].id}
                     /\ workers'[w].id \notin RowIds(store)
               /\ workers[w].op = "update"
                  => /\ RowIds(store') = RowIds(store)
                     /\ Cardinality(store') = Cardinality(store)
                     /\ \A r \in store' : r.id # workers[w].id => r \in store]_vars

C8_Witness ==
    \E w \in Workers :
        /\ workers[w].pc = "exit" /\ workers[w].op = "create"
        /\ workers[w].status = 201
        /\ workers[w].payload = {PayloadWithId}
        /\ workers[w].id = 2
        /\ \E r \in store : r.id = PayloadWithId.id
        /\ Cardinality(store) = 2

\* C9 (as claimed): when two authorized valid updates of the same row overlap
\* and both are answered 200, the row ends with its four fields all equal to
\* the payload of one of the two requests.
C9_UpdateIsWholeRecord ==
    \A w1, w2 \in Workers :
        ( /\ w1 # w2
          /\ workers[w1].pc = "exit" /\ workers[w2].pc = "exit"
          /\ workers[w1].op = "update" /\ workers[w2].op = "update"
          /\ workers[w1].status = 200 /\ workers[w2].status = 200
          /\ workers[w1].id = workers[w2].id )
        => \A r \in store :
              r.id = workers[w1].id
                 => \E p \in workers[w1].payload \cup workers[w2].payload :
                       RowFields(r) = Dict(pydantic, p)

\* C10: a request that opened a session has closed it once the request is
\* over, on every exit path (success, 404, validation error, store failure).
C10_SessionReleased ==
    \A w \in Workers :
        workers[w].pc = "done" => workers[w].sess # "open"

C10_Witness ==
    \E w1, w2 \in Workers :
        /\ workers[w1].pc = "done" /\ workers[w1].sess = "closed"
        /\ workers[w1].status = 500
        /\ workers[w2].pc = "done" /\ workers[w2].sess = "closed"
        /\ workers[w2].status = 204

====
